---- MODULE Spec2Model ----
(***************************************************************************)
(* A model of the audio-sharing backend: the relational tables of          *)
(* backend/music/models.py and backend/accounts/models.py, the request     *)
(* handlers of backend/music/views.py and the account serializer of        *)
(* backend/accounts/serializers.py.                                        *)
(*                                                                         *)
(* Tables are sets of rows.  A nullable column or a handler's local that   *)
(* may hold no row is a set with at most one element ({} is None).         *)
(* Strings that the code inspects (search) are sequences of characters.    *)
(***************************************************************************)
EXTENDS Integers, Sequences, FiniteSets, TLC

VARIABLES users, tracks, likes, reposts, projects, projectfiles,
          nextId, now, req, last, likes0

vars == <<users, tracks, likes, reposts, projects, projectfiles,
          nextId, now, req, last, likes0>>

db == <<users, tracks, likes, reposts, projects, projectfiles, nextId>>

(***************************************************************************)
(* Bounds.                                                                 *)
(***************************************************************************)
\* concurrent requests in flight (one request per worker)
NumReq == 2
\* largest value of the clock (timezone.now())
MaxClock == 2
\* users ever registered
MaxUsers == 2
\* tracks in the catalog that is searched
MaxCatalog == 2
\* longest search query
MaxQueryLen == 2
\* tracks and projects ever created where the detail endpoints are checked
MaxRows == 2
\* Like rows ever inserted by sequential toggles
MaxLikes == 3
\* rows ever inserted into all the tables together, where every table grows
MaxInserts == 5

Procs == 1 .. NumReq
UserIds == {1, 2}
\* ids a request may name: 0 is never the id of a row (auto ids start at 1)
ReqIds == {0, 1}

None == {}
Some(x) == {x}
\* the row held by a one-element set
The(s) == CHOOSE x \in s : TRUE

(***************************************************************************)
(* Characters and strings.                                                 *)
(***************************************************************************)
Alphabet == {"a", "A", "b", "B"}

\* UPPER() of one character, as the database applies it for icontains
Upper(c) == CASE c = "a" -> "A"
              [] c = "b" -> "B"
              [] OTHER -> c

UpperStr(s) == [i \in 1 .. Len(s) |-> Upper(s[i])]

StringsUpTo(n) == UNION {[1 .. k -> Alphabet] : k \in 0 .. n}


(***************************************************************************)
(* The tables' constraints (music/models.py).                              *)
(***************************************************************************)
TrackExists(T, t) == \E r \in T : r.id = t

\* the table without its unique constraint
LikeUniqueViolationDropped(L, u, t) == FALSE

\* Like.Meta.unique_together = ('user', 'track')
LikeUniqueViolation(L, u, t) == \E l \in L : l.user = u /\ l.track = t

\* Like.user and Like.track are foreign keys: the referenced rows must exist
LikeForeignKeyViolation(U, T, u, t) ==
    \/ ~ \E r \in U : r.id = u
    \/ ~ TrackExists(T, t)

\* Like.objects.get(user=, track=): the rows the lookup matches
LikeRows(L, u, t) == {l \in L : l.user = u /\ l.track = t}

\* track.likes.count()
LikesCount(L, t) == Cardinality({l \in L : l.track = t})

\* a delete that removes nothing
DeleteLikeByIdNothing(L, id) == L

\* like.delete(): DELETE ... WHERE id = pk (no error when the row is gone)
DeleteLikeById(L, id) == {l \in L : l.id # id}

\* whether the user likes the track (obj.likes.filter(user=).exists())
Liked(L, u, t) == \E l \in L : l.user = u /\ l.track = t

NewLike(id, u, t) == [id |-> id, user |-> u, track |-> t]

(***************************************************************************)
(* Requests in flight.  A worker runs one request; the fields are the      *)
(* handler's locals and its response.                                      *)
(***************************************************************************)
Idle == [op |-> "none", pc |-> "idle", user |-> 0, track |-> 0,
         like |-> None, created |-> FALSE, inst |-> None, title |-> <<>>,
         status |-> 0, liked |-> FALSE, count |-> 0]

Set(p, r) == req' = [req EXCEPT ![p] = r]

(***************************************************************************)
(* LikeToggleView.post, one database statement per step.                   *)
(***************************************************************************)
\* track = Track.objects.get(id=track_id), 404 when it does not exist
LikeEnter(p, u, t) ==
    /\ req[p].pc = "idle"
    /\ IF TrackExists(tracks, t)
         THEN Set(p, [req[p] EXCEPT !.op = "like", !.pc = "goc_get",
                                    !.user = u, !.track = t])
         ELSE Set(p, [req[p] EXCEPT !.op = "like", !.pc = "done",
                                    !.user = u, !.track = t, !.status = 404])
    /\ UNCHANGED <<db, now, last, likes0>>

\* get_or_create: the first get()
GocGet(p) ==
    /\ req[p].pc = "goc_get"
    /\ LET rows == LikeRows(likes, req[p].user, req[p].track)
       IN  IF rows = {}
             THEN Set(p, [req[p] EXCEPT !.pc = "goc_create"])
             ELSE IF Cardinality(rows) > 1
               \* MultipleObjectsReturned
               THEN Set(p, [req[p] EXCEPT !.pc = "done", !.status = 500])
               ELSE Set(p, [req[p] EXCEPT !.pc = "delete", !.like = rows,
                                          !.created = FALSE])
    /\ UNCHANGED <<db, now, last, likes0>>

\* get_or_create: create() in its own atomic block; an IntegrityError
\* (unique_together, foreign key) leads to the second get()
GocCreate(p) ==
    /\ req[p].pc = "goc_create"
    /\ LET u == req[p].user
           t == req[p].track
       IN  IF \/ LikeUniqueViolation(likes, u, t)
              \/ LikeForeignKeyViolation(users, tracks, u, t)
             THEN /\ Set(p, [req[p] EXCEPT !.pc = "goc_reget"])
                  /\ UNCHANGED <<likes, nextId>>
             ELSE /\ likes' = likes \cup {NewLike(nextId.like, u, t)}
                  /\ nextId' = [nextId EXCEPT !.like = @ + 1]
                  /\ Set(p, [req[p] EXCEPT !.pc = "respond",
                                 !.like = Some(NewLike(nextId.like, u, t)),
                                 !.created = TRUE])
    /\ UNCHANGED <<users, tracks, reposts, projects, projectfiles,
                   now, last, likes0>>

\* get_or_create: the get() after an IntegrityError; the error is re-raised
\* when the row is not there either
GocReget(p) ==
    /\ req[p].pc = "goc_reget"
    /\ LET rows == LikeRows(likes, req[p].user, req[p].track)
       IN  IF Cardinality(rows) = 1
             THEN Set(p, [req[p] EXCEPT !.pc = "delete", !.like = rows,
                                        !.created = FALSE])
             ELSE Set(p, [req[p] EXCEPT !.pc = "done", !.status = 500])
    /\ UNCHANGED <<db, now, last, likes0>>

\* if not created: like.delete()
LikeDelete(p) ==
    /\ req[p].pc = "delete"
    /\ likes' = DeleteLikeById(likes, The(req[p].like).id)
    /\ Set(p, [req[p] EXCEPT !.pc = "respond"])
    /\ UNCHANGED <<users, tracks, reposts, projects, projectfiles, nextId,
                   now, last, likes0>>

\* Response({'liked': created, 'likes_count': track.likes.count()})
LikeRespond(p) ==
    /\ req[p].pc = "respond"
    /\ Set(p, [req[p] EXCEPT !.pc = "done", !.status = 200,
                             !.liked = req[p].created,
                             !.count = LikesCount(likes, req[p].track)])
    /\ UNCHANGED <<db, now, last, likes0>>

(***************************************************************************)
(* Initial tables.                                                         *)
(***************************************************************************)
NoCall == [op |-> "none"]

\* the usernames of the users of the initial tables
UsernameOf(u) == IF u = 1 THEN <<"a", "b">> ELSE <<"B">>

UserRow(u, creator, since) ==
    [id |-> u, username |-> UsernameOf(u), is_creator |-> creator,
     creator_since |-> since]

TrackRow(id, u, title, genre, n, at) ==
    [id |-> id, user |-> u, title |-> title, genre |-> genre,
     listens_count |-> n, created_at |-> at]

InitUsers == {UserRow(1, FALSE, None), UserRow(2, FALSE, None)}

\* a track of each user
InitTracks == {TrackRow(u, u, <<"a">>, <<>>, 0, 0) : u \in UserIds}

\* the Like tables sequential toggles of the users on track 1 can leave
InitLikeTables == {{NewLike(u, u, 1) : u \in S} : S \in SUBSET UserIds}

InitIds == [user |-> 3, track |-> 3, like |-> 3, repost |-> 1,
            project |-> 1, projectfile |-> 1]

\* the counters when only the users exist
EmptyIds == [InitIds EXCEPT !.track = 1, !.like = 1]

LikeInit ==
    /\ users = InitUsers
    /\ tracks = InitTracks
    /\ likes \in InitLikeTables
    /\ likes0 = likes
    /\ reposts = {} /\ projects = {} /\ projectfiles = {}
    /\ nextId = InitIds
    /\ now = 0
    /\ req = [p \in Procs |-> Idle]
    /\ last = NoCall

LikeNext ==
    \/ \E p \in Procs, u \in UserIds, t \in ReqIds : LikeEnter(p, u, t)
    \/ \E p \in Procs : GocGet(p)
    \/ \E p \in Procs : GocCreate(p)
    \/ \E p \in Procs : GocReget(p)
    \/ \E p \in Procs : LikeDelete(p)
    \/ \E p \in Procs : LikeRespond(p)

\* concurrent ToggleLike requests
SpecLike == LikeInit /\ [][LikeNext]_vars


(***************************************************************************)
(* C1: in every state of every interleaving of ToggleLike requests the     *)
(* Like table holds at most one row for each (user, track) pair.           *)
(***************************************************************************)
C1_AtMostOneLikePerPair ==
    \A l1 \in likes, l2 \in likes :
        (l1.user = l2.user /\ l1.track = l2.track) => l1.id = l2.id

\* two requests on one pair raced in get_or_create: one inserted the row,
\* the other's insert was refused
C1_Witness ==
    \E p \in Procs, q \in Procs :
        /\ p # q
        /\ req[p].pc = "goc_reget"
        /\ req[q].op = "like" /\ req[q].created
        /\ req[q].user = req[p].user /\ req[q].track = req[p].track
        /\ LikeRows(likes, req[p].user, req[p].track) # {}

(***************************************************************************)
(* C8: two ToggleLike requests on one pair whose steps interleave end as   *)
(* some serial execution of the two would: no error, one reports liked     *)
(* true and the other liked false, and the pair is back in its original    *)
(* state.                                                                  *)
(***************************************************************************)
C8_ToggleSerializable ==
    \A p \in Procs, q \in Procs :
        ( /\ p # q
          /\ req[p].op = "like" /\ req[q].op = "like"
          /\ req[p].pc = "done" /\ req[q].pc = "done"
          /\ req[p].user = req[q].user /\ req[p].track = req[q].track
          /\ TrackExists(tracks, req[p].track)
          /\ \A r \in Procs \ {p, q} :
                ~ (req[r].op = "like" /\ req[r].user = req[p].user
                                      /\ req[r].track = req[p].track) )
        => /\ req[p].status = 200 /\ req[q].status = 200
           /\ req[p].liked # req[q].liked
           /\ Liked(likes, req[p].user, req[p].track)
                = Liked(likes0, req[p].user, req[p].track)


(***************************************************************************)
(* TrackListenView.post and TrackDetailView's PUT, one database statement  *)
(* per step.                                                               *)
(***************************************************************************)
\* a get_queryset that does not filter by owner
TrackDetailQuerysetAll(T, u) == T

\* TrackDetailView.get_queryset: Track.objects.filter(user=request.user)
TrackDetailQueryset(T, u) == {r \in T : r.user = u}

\* titles a client sends
PutTitles == {<<"a">>, <<"b">>}

\* track = Track.objects.get(id=track_id), 404 when it does not exist
ListenGet(p, u, t) ==
    /\ req[p].pc = "idle"
    /\ LET rows == {r \in tracks : r.id = t}
       IN  IF rows = {}
             THEN Set(p, [req[p] EXCEPT !.op = "listen", !.pc = "done",
                              !.user = u, !.track = t, !.status = 404])
             ELSE Set(p, [req[p] EXCEPT !.op = "listen", !.pc = "listen_save",
                              !.user = u, !.track = t, !.inst = rows])
    /\ UNCHANGED <<db, now, last, likes0>>

\* track.listens_count += 1; track.save(update_fields=['listens_count']):
\* the column of the row is overwritten with the value computed from the
\* instance that was read; the save raises when the row is gone
ListenSave(p) ==
    /\ req[p].pc = "listen_save"
    /\ LET inst == The(req[p].inst)
           n == inst.listens_count + 1
       IN  IF TrackExists(tracks, inst.id)
             THEN /\ tracks' = {IF r.id = inst.id
                                  THEN [r EXCEPT !.listens_count = n]
                                  ELSE r : r \in tracks}
                  /\ Set(p, [req[p] EXCEPT !.pc = "done", !.status = 200,
                                           !.count = n])
             ELSE /\ tracks' = tracks
                  /\ Set(p, [req[p] EXCEPT !.pc = "done", !.status = 500])
    /\ UNCHANGED <<users, likes, reposts, projects, projectfiles, nextId,
                   now, last, likes0>>

\* UpdateOwn: get_object() on the owner's queryset loads the whole row
UpdLoad(p, u, t, title) ==
    /\ req[p].pc = "idle"
    /\ LET rows == {r \in TrackDetailQueryset(tracks, u) : r.id = t}
       IN  IF rows = {}
             THEN Set(p, [req[p] EXCEPT !.op = "update", !.pc = "done",
                              !.user = u, !.track = t, !.status = 404])
             ELSE Set(p, [req[p] EXCEPT !.op = "update", !.pc = "upd_save",
                              !.user = u, !.track = t, !.inst = rows,
                              !.title = title])
    /\ UNCHANGED <<db, now, last, likes0>>

\* UpdateOwn: the serializer sets the writable fields on the loaded
\* instance (listens_count and created_at are read-only) and instance.save()
\* writes every column of the instance
UpdSave(p) ==
    /\ req[p].pc = "upd_save"
    /\ LET inst == The(req[p].inst)
       IN  tracks' = {r \in tracks : r.id # inst.id}
                        \cup {[inst EXCEPT !.title = req[p].title]}
    /\ Set(p, [req[p] EXCEPT !.pc = "done", !.status = 200])
    /\ UNCHANGED <<users, likes, reposts, projects, projectfiles, nextId,
                   now, last, likes0>>

ListenInit ==
    /\ users = InitUsers
    /\ tracks = InitTracks
    /\ likes = {} /\ likes0 = {}
    /\ reposts = {} /\ projects = {} /\ projectfiles = {}
    /\ nextId = InitIds
    /\ now = 0
    /\ req = [p \in Procs |-> Idle]
    /\ last = NoCall

ListenNext ==
    \/ \E p \in Procs, u \in UserIds, t \in ReqIds : ListenGet(p, u, t)
    \/ \E p \in Procs : ListenSave(p)
    \/ \E p \in Procs, u \in UserIds, t \in ReqIds, title \in PutTitles :
          UpdLoad(p, u, t, title)
    \/ \E p \in Procs : UpdSave(p)

\* concurrent RecordListen and UpdateOwn requests
SpecListen == ListenInit /\ [][ListenNext]_vars

(***************************************************************************)
(* C2: once N RecordListen requests on a track have completed, none is in  *)
(* flight and nothing else wrote the track, its listens_count is N more    *)
(* than before the first request.                                          *)
(***************************************************************************)
ListensOf(T, t) == The({r \in T : r.id = t}).listens_count

Completed(t) == {p \in Procs : /\ req[p].op = "listen" /\ req[p].track = t
                               /\ req[p].pc = "done" /\ req[p].status = 200}

C2_EveryListenCounted ==
    \A t \in {r.id : r \in tracks} :
        ( /\ \A p \in Procs : req[p].track = t =>
                (req[p].op = "listen" /\ req[p].pc = "done") )
        => ListensOf(tracks, t)
             = ListensOf(InitTracks, t) + Cardinality(Completed(t))

(***************************************************************************)
(* C9: listens_count of a track never decreases from one state to the      *)
(* next, and the save of an UpdateOwn leaves it as it was.                 *)
(***************************************************************************)
C9_ListensMonotonic ==
    [][ \A r \in tracks : \A r2 \in tracks' :
          r.id = r2.id =>
            /\ r2.listens_count >= r.listens_count
            /\ (\E p \in Procs : req[p].pc = "upd_save" /\ req'[p].pc = "done")
                  => r2.listens_count = r.listens_count ]_vars


(***************************************************************************)
(* Accounts: UserSerializer.create and UserSerializer.update.              *)
(***************************************************************************)
\* usernames a client sends
Usernames == {<<"a", "b">>, <<"B">>}

\* a field a request may leave out: {} (absent) or {value}
Optional(S) == {None} \cup {Some(x) : x \in S}

\* timezone.now() advances
Tick ==
    /\ now < MaxClock
    /\ now' = now + 1
    /\ UNCHANGED <<db, req, last, likes0>>

\* Register: UserSerializer.create builds the row from the validated data;
\* creator_since is read-only, so the row gets the column's default (null).
\* The username is unique.
Register(name, creator) ==
    /\ IF \E r \in users : r.username = name
         THEN /\ last' = [op |-> "register", status |-> 400]
              /\ UNCHANGED db
         ELSE /\ users' = users \cup
                    {[id |-> nextId.user, username |-> name,
                      is_creator |-> creator, creator_since |-> None]}
              /\ nextId' = [nextId EXCEPT !.user = @ + 1]
              /\ last' = [op |-> "register", status |-> 201]
              /\ UNCHANGED <<tracks, likes, reposts, projects, projectfiles>>
    /\ UNCHANGED <<now, req, likes0>>

\* UpdateProfile: UserSerializer.update.  creator is the is_creator field of
\* the request, since a creator_since the client supplied (read-only: it never
\* reaches validated_data)
UpdateProfile(u, creator, since) ==
    /\ \E r \in users : r.id = u
    /\ LET inst == The({r \in users : r.id = u})
           is_creator == creator = Some(TRUE)
           stamped == IF is_creator /\ ~ inst.is_creator
                        THEN [inst EXCEPT !.creator_since = Some(now)]
                        ELSE inst
           saved == IF creator = None
                      THEN stamped
                      ELSE [stamped EXCEPT !.is_creator = The(creator)]
       IN  users' = (users \ {inst}) \cup {saved}
    /\ last' = [op |-> "update_profile", status |-> 200]
    /\ UNCHANGED <<tracks, likes, reposts, projects, projectfiles, nextId,
                   now, req, likes0>>

UserInit ==
    /\ users = {}
    /\ tracks = {} /\ likes = {} /\ likes0 = {}
    /\ reposts = {} /\ projects = {} /\ projectfiles = {}
    /\ nextId = [EmptyIds EXCEPT !.user = 1]
    /\ now = 0
    /\ req = [p \in Procs |-> Idle]
    /\ last = NoCall

UserNext ==
    \/ Tick
    \/ \E name \in Usernames, creator \in BOOLEAN :
          nextId.user <= MaxUsers /\ Register(name, creator)
    \/ \E u \in UserIds, creator \in Optional(BOOLEAN),
          since \in Optional(0 .. MaxClock) : UpdateProfile(u, creator, since)

\* registrations and profile updates, one after the other
SpecUser == UserInit /\ [][UserNext]_vars

(***************************************************************************)
(* C4: creator_since is stamped by the update that takes is_creator from   *)
(* false to true, and once it is non-null no later update changes or       *)
(* clears it.                                                              *)
(***************************************************************************)
C4_CreatorSinceSetOnce ==
    [][ \A r \in users : \A r2 \in users' :
          r.id = r2.id =>
            /\ (~ r.is_creator /\ r2.is_creator) => r2.creator_since # None
            /\ r.creator_since # None => r2.creator_since = r.creator_since
      ]_vars

(***************************************************************************)
(* C10: in every state every user with is_creator = true has a non-null    *)
(* creator_since.                                                          *)
(***************************************************************************)
C10_CreatorHasCreatorSince ==
    \A r \in users : r.is_creator => r.creator_since # None


(***************************************************************************)
(* Handlers run one at a time: each action is a whole request.  last is    *)
(* the most recent call with its response.                                 *)
(***************************************************************************)
\* rows inserted into a table since the state in which only the users and
\* no other rows existed
Inserted(table) == nextId[table] - EmptyIds[table]

\* LikeToggleView.post run without interruption
ToggleLike(u, t) ==
    /\ \E r \in users : r.id = u
    /\ LET rows == LikeRows(likes, u, t)
           was == rows # {}
           refused == \/ LikeUniqueViolation(likes, u, t)
                      \/ LikeForeignKeyViolation(users, tracks, u, t)
           call == [op |-> "like", user |-> u, track |-> t, was |-> was,
                    again |-> /\ last.op = "like"
                              /\ last.status = 200
                              /\ last.user = u /\ last.track = t]
       IN  IF ~ TrackExists(tracks, t)
             THEN /\ last' = call @@ [status |-> 404, liked |-> FALSE,
                                      count |-> 0]
                  /\ UNCHANGED <<likes, nextId>>
             ELSE IF rows = {} /\ ~ refused
               \* get_or_create created the row
               THEN /\ likes' = likes \cup {NewLike(nextId.like, u, t)}
                    /\ nextId' = [nextId EXCEPT !.like = @ + 1]
                    /\ last' = call @@ [status |-> 200, liked |-> TRUE,
                                 count |-> LikesCount(likes', t)]
               ELSE IF Cardinality(rows) # 1
                 \* IntegrityError re-raised, or MultipleObjectsReturned
                 THEN /\ last' = call @@ [status |-> 500, liked |-> FALSE,
                                          count |-> 0]
                      /\ UNCHANGED <<likes, nextId>>
                 \* get_or_create found the row: like.delete()
                 ELSE /\ likes' = DeleteLikeById(likes, The(rows).id)
                      /\ nextId' = nextId
                      /\ last' = call @@ [status |-> 200, liked |-> FALSE,
                                   count |-> LikesCount(likes', t)]
    /\ UNCHANGED <<users, tracks, reposts, projects, projectfiles,
                   now, req, likes0>>

(***************************************************************************)
(* on_delete=CASCADE (music/models.py): the rows a delete takes with it,   *)
(* given the ids of the parent rows being deleted.                         *)
(***************************************************************************)
Ids(R) == {r.id : r \in R}

\* Track.user
CascadeTracks(T, delUsers) == {r \in T : r.user \in delUsers}

\* Like.user, Like.track
CascadeLikes(L, delUsers, delTracks) ==
    {l \in L : l.user \in delUsers \/ l.track \in delTracks}

\* Repost.user, Repost.track
CascadeReposts(R, delUsers, delTracks) ==
    {l \in R : l.user \in delUsers \/ l.track \in delTracks}

\* Project.user
CascadeProjects(P, delUsers) == {r \in P : r.user \in delUsers}

\* a ProjectFile.project that does not cascade
CascadeFilesNone(F, delProjects) == {}

\* ProjectFile.project
CascadeFiles(F, delProjects) == {f \in F : f.project \in delProjects}

\* Model.delete(): the collector follows the cascades from the seed rows
\* and deletes everything it collected
DeleteCollected(delUsers, seedTracks, seedProjects) ==
    LET delTracks == seedTracks \cup Ids(CascadeTracks(tracks, delUsers))
        delProjects == seedProjects \cup Ids(CascadeProjects(projects, delUsers))
    IN  /\ users' = {r \in users : r.id \notin delUsers}
        /\ tracks' = {r \in tracks : r.id \notin delTracks}
        /\ likes' = likes \ CascadeLikes(likes, delUsers, delTracks)
        /\ reposts' = reposts \ CascadeReposts(reposts, delUsers, delTracks)
        /\ projects' = {r \in projects : r.id \notin delProjects}
        /\ projectfiles' = projectfiles \ CascadeFiles(projectfiles, delProjects)
        /\ nextId' = nextId

(***************************************************************************)
(* Track catalog and projects, whole requests.                             *)
(***************************************************************************)
\* TrackListCreateView.perform_create: serializer.save(user=request.user);
\* listens_count takes its default, created_at is the time of the insert
CreateTrack(u, title, genre) ==
    /\ \E r \in users : r.id = u
    /\ tracks' = tracks \cup {TrackRow(nextId.track, u, title, genre, 0, now)}
    /\ nextId' = [nextId EXCEPT !.track = @ + 1]
    /\ last' = [op |-> "create_track", status |-> 201]
    /\ UNCHANGED <<users, likes, reposts, projects, projectfiles,
                   now, req, likes0>>

\* TrackSerializer: the row with the counts computed at read time
SerializeTrack(r, u) ==
    [id |-> r.id, user_id |-> r.user, title |-> r.title, genre |-> r.genre,
     listens_count |-> r.listens_count, created_at |-> r.created_at,
     likes_count |-> LikesCount(likes, r.id),
     is_liked |-> LikeRows(likes, u, r.id) # {},
     reposts_count |-> Cardinality({l \in reposts : l.track = r.id}),
     is_reposted |-> \E l \in reposts : l.user = u /\ l.track = r.id]

NotFound == [status |-> 404, detail |-> "Not found.", body |-> None]

\* the response of TrackDetailView to method m on id x by user u when the
\* table of tracks is T: get_object() looks x up in get_queryset()
TrackDetailResponse(T, u, x, m, title) ==
    LET rows == {r \in TrackDetailQueryset(T, u) : r.id = x}
    IN  IF rows = {} THEN NotFound
        ELSE CASE m = "GET" ->
                    [status |-> 200, detail |-> "",
                     body |-> Some(SerializeTrack(The(rows), u))]
               [] m = "PUT" ->
                    [status |-> 200, detail |-> "",
                     body |-> Some(SerializeTrack(
                                 [The(rows) EXCEPT !.title = title], u))]
               [] m = "DELETE" ->
                    [status |-> 204, detail |-> "", body |-> None]

\* TrackDetailView (RetrieveUpdateDestroyAPIView) run without interruption
TrackDetail(u, x, m, title) ==
    /\ \E r \in users : r.id = u
    /\ LET rows == {r \in TrackDetailQueryset(tracks, u) : r.id = x}
       IN  IF rows = {} \/ m = "GET"
             THEN UNCHANGED db
             ELSE IF m = "PUT"
               THEN /\ tracks' = (tracks \ rows)
                                   \cup {[The(rows) EXCEPT !.title = title]}
                    /\ UNCHANGED <<users, likes, reposts, projects,
                                   projectfiles, nextId>>
               ELSE DeleteCollected({}, Ids(rows), {})
    /\ last' = [op |-> "track_detail", user |-> u, id |-> x, method |-> m,
                title |-> title]
                  @@ TrackDetailResponse(tracks, u, x, m, title)
    /\ UNCHANGED <<now, req, likes0>>

ProjectRow(id, u, title) == [id |-> id, user |-> u, title |-> title]

\* ProjectListCreateView.perform_create: serializer.save(user=request.user)
CreateProject(u, title) ==
    /\ \E r \in users : r.id = u
    /\ projects' = projects \cup {ProjectRow(nextId.project, u, title)}
    /\ nextId' = [nextId EXCEPT !.project = @ + 1]
    /\ last' = [op |-> "create_project", status |-> 201]
    /\ UNCHANGED <<users, tracks, likes, reposts, projectfiles,
                   now, req, likes0>>

\* ProjectDetailView.get_queryset: Project.objects.filter(user=request.user)
ProjectDetailQueryset(P, u) == {r \in P : r.user = u}

ProjectDetailResponse(P, u, x, m, title) ==
    LET rows == {r \in ProjectDetailQueryset(P, u) : r.id = x}
    IN  IF rows = {} THEN NotFound
        ELSE CASE m = "GET" ->
                    [status |-> 200, detail |-> "", body |-> rows]
               [] m = "PUT" ->
                    [status |-> 200, detail |-> "",
                     body |-> Some([The(rows) EXCEPT !.title = title])]
               [] m = "DELETE" ->
                    [status |-> 204, detail |-> "", body |-> None]

\* ProjectDetailView (RetrieveUpdateDestroyAPIView) run without interruption
ProjectDetail(u, x, m, title) ==
    /\ \E r \in users : r.id = u
    /\ LET rows == {r \in ProjectDetailQueryset(projects, u) : r.id = x}
       IN  IF rows = {} \/ m = "GET"
             THEN UNCHANGED db
             ELSE IF m = "PUT"
               THEN /\ projects' = (projects \ rows)
                                   \cup {[The(rows) EXCEPT !.title = title]}
                    /\ UNCHANGED <<users, tracks, likes, reposts,
                                   projectfiles, nextId>>
               ELSE DeleteCollected({}, {}, Ids(rows))
    /\ last' = [op |-> "project_detail", user |-> u, id |-> x, method |-> m,
                title |-> title]
                  @@ ProjectDetailResponse(projects, u, x, m, title)
    /\ UNCHANGED <<now, req, likes0>>

ToggleInit ==
    /\ users = InitUsers
    /\ tracks = InitTracks
    /\ likes = {} /\ likes0 = {}
    /\ reposts = {} /\ projects = {} /\ projectfiles = {}
    /\ nextId = [InitIds EXCEPT !.like = 1]
    /\ now = 0
    /\ req = [p \in Procs |-> Idle]
    /\ last = NoCall

ToggleNext ==
    \E u \in UserIds, t \in 0 .. 2 :
        /\ Liked(likes, u, t) \/ Inserted("like") < MaxLikes
        /\ ToggleLike(u, t)

\* ToggleLike requests, one after the other
SpecToggle == ToggleInit /\ [][ToggleNext]_vars

(***************************************************************************)
(* C3: two ToggleLike(U,T) calls run one after the other restore the       *)
(* original presence of Like(U,T): the first reports the negation of the   *)
(* original state, the second the original state, and a reported           *)
(* likes_count is the number of Like rows of T after the call.             *)
(***************************************************************************)
IsToggle(c) == c.op = "like" /\ c.status = 200

C3_DoubleToggleRestores ==
    [][ IsToggle(last') =>
          /\ last'.count = Cardinality({l \in likes' : l.track = last'.track})
          /\ last'.liked = Liked(likes', last'.user, last'.track)
          /\ last'.liked = ~ Liked(likes, last'.user, last'.track)
          /\ ( /\ IsToggle(last)
               /\ last.user = last'.user /\ last.track = last'.track )
             => /\ last.liked = ~ last.was
                /\ last'.liked = last.was
                /\ Liked(likes', last'.user, last'.track) = last.was
      ]_vars

\* a like and then an unlike of one pair, one call after the other, while
\* the other user's like of the track stands
C3_Witness ==
    /\ IsToggle(last) /\ last.again
    /\ ~ last.liked
    /\ last.count = 1

(***************************************************************************)
(* Owner-scoped detail endpoints.                                          *)
(***************************************************************************)
Methods == {"GET", "PUT", "DELETE"}

DetailInit ==
    /\ users = InitUsers
    /\ tracks = {} /\ likes = {} /\ likes0 = {}
    /\ reposts = {} /\ projects = {} /\ projectfiles = {}
    /\ nextId = EmptyIds
    /\ now = 0
    /\ req = [p \in Procs |-> Idle]
    /\ last = NoCall

DetailNext ==
    \/ \E u \in UserIds :
          /\ Inserted("track") + Inserted("project") < MaxRows
          /\ CreateTrack(u, <<"a">>, <<>>)
    \/ \E u \in UserIds :
          /\ Inserted("track") + Inserted("project") < MaxRows
          /\ CreateProject(u, <<"a">>)
    \/ \E u \in UserIds, x \in 0 .. MaxRows, m \in Methods :
          TrackDetail(u, x, m, <<"b">>)
    \/ \E u \in UserIds, x \in 0 .. MaxRows, m \in Methods :
          ProjectDetail(u, x, m, <<"b">>)

\* creates and detail requests on tracks and projects, one after the other
SpecDetail == DetailInit /\ [][DetailNext]_vars

(***************************************************************************)
(* C5: a GET, PUT or DELETE of a Track or Project on an id the requesting  *)
(* user does not own is answered as the same request on an id that does    *)
(* not exist (not found) and leaves every table as it was; and what a      *)
(* user is answered depends only on the rows that user owns.               *)
(***************************************************************************)
OwnedBy(R, u) == {r \in R : r.user = u}

\* the step is a detail request of kind op on an id its user does not own
ForeignDetail(op, R) ==
    /\ last'.op = op
    /\ last'.id \notin Ids(OwnedBy(R, last'.user))

Answer(c) == [status |-> c.status, detail |-> c.detail, body |-> c.body]

C5_WitnessProject ==
    /\ last.op = "project_detail" /\ last.method = "PUT"
    /\ last.status = 404
    /\ \E r \in projects : r.id = last.id /\ r.user # last.user


(***************************************************************************)
(* Creates and deletes over all the tables.                                *)
(***************************************************************************)
\* a Repost row is inserted: unique_together = ('user', 'track'), and both
\* foreign keys must name existing rows
CreateRepost(u, t) ==
    /\ IF \/ \E l \in reposts : l.user = u /\ l.track = t
          \/ LikeForeignKeyViolation(users, tracks, u, t)
         THEN /\ last' = [op |-> "create_repost", status |-> 500]
              /\ UNCHANGED db
         ELSE /\ reposts' = reposts \cup {NewLike(nextId.repost, u, t)}
              /\ nextId' = [nextId EXCEPT !.repost = @ + 1]
              /\ last' = [op |-> "create_repost", status |-> 201]
              /\ UNCHANGED <<users, tracks, likes, projects, projectfiles>>
    /\ UNCHANGED <<now, req, likes0>>

\* UploadFile: a ProjectFile is created under the project when the project
\* belongs to the requesting user
UploadFile(u, x) ==
    /\ \E r \in users : r.id = u
    /\ IF \E r \in projects : r.id = x /\ r.user = u
         THEN /\ projectfiles' = projectfiles
                    \cup {[id |-> nextId.projectfile, project |-> x]}
              /\ nextId' = [nextId EXCEPT !.projectfile = @ + 1]
              /\ last' = [op |-> "upload_file", status |-> 201]
              /\ UNCHANGED <<users, tracks, likes, reposts, projects>>
         ELSE /\ last' = [op |-> "upload_file", status |-> 403]
              /\ UNCHANGED db
    /\ UNCHANGED <<now, req, likes0>>

RowCount == Cardinality(users) + Cardinality(tracks) + Cardinality(likes)
              + Cardinality(reposts) + Cardinality(projects)
              + Cardinality(projectfiles)

\* user.delete()
DeleteUser(u) ==
    /\ \E r \in users : r.id = u
    /\ DeleteCollected({u}, {}, {})
    /\ last' = [op |-> "delete_user", user |-> u,
                removed |-> RowCount - RowCount',
                of_others |-> Cardinality({l \in likes \ likes' : l.user # u})
                           + Cardinality({l \in reposts \ reposts' : l.user # u})]
    /\ UNCHANGED <<now, req, likes0>>

CascadeInit ==
    /\ users = InitUsers
    /\ tracks = {} /\ likes = {} /\ likes0 = {}
    /\ reposts = {} /\ projects = {} /\ projectfiles = {}
    /\ nextId = EmptyIds
    /\ now = 0
    /\ req = [p \in Procs |-> Idle]
    /\ last = NoCall

\* rows inserted into all the tables together
TotalInserted ==
    Inserted("user") + Inserted("track") + Inserted("like")
      + Inserted("repost") + Inserted("project") + Inserted("projectfile")

CascadeNext ==
    \/ \E name \in Usernames :
          TotalInserted < MaxInserts /\ Register(name, FALSE)
    \/ \E u \in Ids(users) :
          TotalInserted < MaxInserts /\ CreateTrack(u, <<"a">>, <<>>)
    \/ \E u \in Ids(users), t \in Ids(tracks) :
          /\ Liked(likes, u, t) \/ TotalInserted < MaxInserts
          /\ ToggleLike(u, t)
    \/ \E u \in Ids(users), t \in Ids(tracks) :
          TotalInserted < MaxInserts /\ CreateRepost(u, t)
    \/ \E u \in Ids(users) :
          TotalInserted < MaxInserts /\ CreateProject(u, <<"a">>)
    \/ \E u \in Ids(users), x \in Ids(projects) :
          TotalInserted < MaxInserts /\ UploadFile(u, x)
    \/ \E u \in Ids(users) : DeleteUser(u)
    \/ \E u \in Ids(users), x \in Ids(tracks) :
          TrackDetail(u, x, "DELETE", <<>>)
    \/ \E u \in Ids(users), x \in Ids(projects) :
          ProjectDetail(u, x, "DELETE", <<>>)

\* creates and deletes on every table, one after the other
SpecCascade == CascadeInit /\ [][CascadeNext]_vars

(***************************************************************************)
(* C6: after any sequence of creates and deletes no row refers to a        *)
(* deleted parent: every foreign key of every table names an existing row. *)
(***************************************************************************)
C6_NoOrphans ==
    /\ \A r \in tracks : r.user \in Ids(users)
    /\ \A l \in likes : l.user \in Ids(users) /\ l.track \in Ids(tracks)
    /\ \A l \in reposts : l.user \in Ids(users) /\ l.track \in Ids(tracks)
    /\ \A r \in projects : r.user \in Ids(users)
    /\ \A f \in projectfiles : f.project \in Ids(projects)

\* a user was deleted and took a track, the other user's like and repost of
\* it, a project and its file along
C6_Witness ==
    /\ last.op = "delete_user"
    /\ last.removed = 6
    /\ last.of_others = 2
    /\ Cardinality(users) = 1


(***************************************************************************)
(* SearchView.get_queryset.                                                *)
(***************************************************************************)
\* a comparison that does not fold case
icontainsExact(hay, needle) ==
    \E i \in 0 .. Len(hay) - Len(needle) :
        SubSeq(hay, i + 1, i + Len(needle)) = needle

\* field__icontains=needle: UPPER(field) LIKE '%' || UPPER(needle) || '%'
icontains(hay, needle) ==
    \E i \in 0 .. Len(hay) - Len(needle) :
        SubSeq(UpperStr(hay), i + 1, i + Len(needle)) = UpperStr(needle)

\* the username the join user__username reads
OwnerName(r) == The({x \in users : x.id = r.user}).username

\* the rows of the queryset: none() for an empty query, else the filter
SearchRows(query) ==
    IF query = <<>> THEN {}
    ELSE {r \in tracks : \/ icontains(r.title, query)
                         \/ icontains(r.genre, query)
                         \/ icontains(OwnerName(r), query)}

\* order_by('-created_at'): every order of the rows in which created_at
\* does not increase (rows of one created_at come in any order)
NewestFirst(R) ==
    {s \in [1 .. Cardinality(R) -> R] :
        /\ \A i, j \in DOMAIN s : i # j => s[i] # s[j]
        /\ \A i, j \in DOMAIN s : i < j => s[i].created_at >= s[j].created_at}

\* GET /search?q=: q is the parameter as sent ({} when it is missing)
Search(u, q) ==
    /\ \E r \in users : r.id = u
    /\ LET query == IF q = None THEN <<>> ELSE The(q)
       IN  \E s \in NewestFirst(SearchRows(query)) :
              last' = [op |-> "search", user |-> u, q |-> q, status |-> 200,
                       results |-> [i \in DOMAIN s |-> SerializeTrack(s[i], u)]]
    /\ UNCHANGED <<db, now, req, likes0>>

Titles == {<<"a", "B">>, <<"b">>}
Genres == {<<>>, <<"A">>}

SearchInit ==
    /\ users = InitUsers
    /\ tracks = {} /\ likes = {} /\ likes0 = {}
    /\ reposts = {} /\ projects = {} /\ projectfiles = {}
    /\ nextId = EmptyIds
    /\ now = 0
    /\ req = [p \in Procs |-> Idle]
    /\ last = NoCall

\* a search changes no table, so the catalogs reachable after it are those
\* reachable without it: a run ends with its search
SearchNext ==
    \/ last.op # "search" /\ Tick
    \/ \E u \in UserIds, title \in Titles, genre \in Genres :
          /\ last.op # "search"
          /\ Inserted("track") < MaxCatalog
          /\ CreateTrack(u, title, genre)
    \/ \E u \in UserIds, q \in Optional(StringsUpTo(MaxQueryLen)) :
          last.op # "search" /\ Search(u, q)

\* uploads followed by a search of the catalog
SpecSearch == SearchInit /\ [][SearchNext]_vars

(***************************************************************************)
(* C7: a search with an empty or missing query returns the empty sequence; *)
(* a search with a non-empty query returns exactly the tracks whose title, *)
(* genre or owner username contains the query case-insensitively, each     *)
(* once, newest first.                                                     *)
(***************************************************************************)
\* the two characters are one letter in either case
SameLetter(c, d) ==
    \/ c = d
    \/ {c, d} = {"a", "A"}
    \/ {c, d} = {"b", "B"}

\* needle occurs in hay at some offset, letter for letter
Contains(hay, needle) ==
    \E k \in 0 .. Len(hay) :
        /\ k + Len(needle) <= Len(hay)
        /\ \A i \in 1 .. Len(needle) : SameLetter(hay[k + i], needle[i])

Matches(r, needle) ==
    \/ Contains(r.title, needle)
    \/ Contains(r.genre, needle)
    \/ \E x \in users : x.id = r.user /\ Contains(x.username, needle)

C7_SearchResults ==
    last.op = "search" =>
        LET res == last.results
            n == Len(res)
        IN  /\ (last.q = None \/ last.q = Some(<<>>)) => res = <<>>
            /\ \A q \in last.q : q # <<>> =>
                  /\ {res[i].id : i \in 1 .. n}
                       = {r.id : r \in {x \in tracks : Matches(x, q)}}
                  /\ \A i, j \in 1 .. n : i # j => res[i].id # res[j].id
            /\ \A i \in 1 .. n : \A j \in 1 .. n :
                  i < j => res[i].created_at >= res[j].created_at

\* a two-letter query found two tracks of different age, both only because
\* case is ignored
C7_Witness ==
    /\ last.op = "search"
    /\ \E q \in last.q : Len(q) = 2
    /\ Len(last.results) = 2
    /\ last.results[1].created_at > last.results[2].created_at
    /\ \A r \in tracks : \A q \in last.q :
          /\ ~ icontainsExact(r.title, q)
          /\ ~ icontainsExact(r.genre, q)
          /\ ~ icontainsExact(OwnerName(r), q)

\* a one-letter query left a track of the catalog out
C7_WitnessLeftOut ==
    /\ last.op = "search"
    /\ \E q \in last.q : Len(q) = 1
    /\ Len(last.results) = 1
    /\ Cardinality(tracks) = 2

\* an empty query over a catalog that is not empty
C7_WitnessEmpty ==
    /\ last.op = "search"
    /\ last.q = Some(<<>>)
    /\ tracks # {}

====
